---- MODULE Spec2Model ----
(***************************************************************************)
(* State machine of src/index.tsx: the upload listener, the mode and       *)
(* prompt listeners, the action and download triggers, the two             *)
(* orchestration functions (editImageWithGemini, generateVideoWithGemini)  *)
(* with their suspension points, the status-rotation timer, setLoading     *)
(* and displayError.                                                       *)
(*                                                                         *)
(* Strings are sequences of tokens (a token is a run of characters that    *)
(* the code never looks into); the separators the code splits on are       *)
(* tokens of their own.                                                    *)
(***************************************************************************)
EXTENDS Integers, Sequences, FiniteSets, TLC

\* ---------------------------------------------------------------- bounds
\* Each specification bounds the orchestration calls started in one behaviour,
\* the file reads in flight at once, and the done=false reports one video job
\* may give.
MaxCycles == 2       \* Spec: two calls, so that calls can overlap
MaxPending == 1
MaxPolls == 1
PollCycles == 1      \* SpecPoll: one call, polled at length
PollPending == 1
PollPolls == 2
UploadCycles == 1    \* SpecUpload: overlapping reads
UploadPending == 2
UploadPolls == 1
StepCycles == 1      \* SpecStep: one call, one read, one not-done report
StepPending == 1
StepPolls == 1
LiveCycles == 2      \* SpecLive: fair scheduling of the continuations
LivePending == 1
LivePolls == 1
ParseLen == 6        \* SpecParse: data URLs of up to ParseLen tokens

\* ------------------------------------------------------------ JS values
Null == <<"null">>   \* null (distinct from every string of the model)
Undefined == 0       \* loadingInterval === undefined (timer ids are >= 1)

Falsy(v) == v = Null \/ v = <<>>

\* String.prototype.trim on a token string; " " is the whitespace token.
RECURSIVE TrimLeft(_)
TrimLeft(s) == IF s # <<>> /\ Head(s) = " " THEN TrimLeft(Tail(s)) ELSE s

RECURSIVE TrimRight(_)
TrimRight(s) ==
    IF s # <<>> /\ s[Len(s)] = " " THEN TrimRight(SubSeq(s, 1, Len(s) - 1)) ELSE s

Trim(s) == TrimRight(TrimLeft(s))

\* String.prototype.split(sep): k separators give k+1 pieces.
RECURSIVE SplitAcc(_, _, _)
SplitAcc(s, sep, cur) ==
    IF s = <<>> THEN <<cur>>
    ELSE IF Head(s) = sep THEN <<cur>> \o SplitAcc(Tail(s), sep, <<>>)
    ELSE SplitAcc(Tail(s), sep, Append(cur, Head(s)))

Split(s, sep) == SplitAcc(s, sep, <<>>)

\* ------------------------------------------------------- input domains
\* Results of FileReader.readAsDataURL for the files a user may pick.
FilePng == <<"data", ":", "image/png", ";", "base64", ",", "AAA">>
FileJpeg == <<"data", ":", "image/jpeg", ";", "base64", ",", "BBB">>
FileEmpty == <<"data", ":">>     \* an empty file: no comma at all
Files == {FilePng, FileJpeg, FileEmpty}

\* What promptInput.value may hold when the action trigger is clicked: the
\* user edits it freely, so it is an input of the click (empty, whitespace
\* only, an instruction).
Prompts == {<<>>, <<" ">>, <<"p">>}

Modes == {"edit", "video"}

\* ----------------------------------------------------------- messages
LoadingMessages ==
    << "Iniciando la generacion de video...",
       "El modelo esta imaginando tu escena...",
       "Renderizando los fotogramas (esto puede tardar unos minutos)...",
       "Aplicando los toques finales...",
       "Casi listo, la espera valdra la pena!" >>

MsgNoContent == <<"El modelo no devolvio ningun contenido.">>
MsgNoResponse == <<"No hubo respuesta del modelo. Por favor, intentalo de nuevo.">>
MsgEditError == <<"Ocurrio un error en la edicion. Por favor, revisa la consola.">>
MsgNoVideo == <<"No se pudo generar el video. Intentalo de nuevo.">>
MsgVideoError ==
    <<"Ocurrio un error en la generacion del video. Por favor, revisa la consola.">>

AlertNoImage == "Por favor, sube una imagen primero."
AlertNoPrompt == "Por favor, ingresa una instruccion."
AlertNoResult == "No hay resultado para descargar."
AlertReadError == "No se pudo leer el archivo seleccionado."

\* ------------------------------------------------------------- state
VARIABLES
    imageBase64,            \* let imageBase64
    imageMimeType,          \* let imageMimeType
    resultUrl,              \* let resultUrl
    currentMode,            \* let currentMode
    loadingInterval,        \* let loadingInterval
    radioChecked,           \* which of the two mode radios is checked
    actionLabel,            \* actionButton.textContent
    downloadLabel,          \* downloadButton.textContent
    actionDisabled,         \* actionButton.disabled
    downloadHidden,         \* downloadButton has class "hidden"
    loaderHidden,           \* loader has class "hidden"
    resultPlaceholderHidden,\* resultPlaceholder has class "hidden"
    resultContainer,        \* children of resultContainer, in order
    originalImageSrc,       \* originalImage.src
    originalImageShown,     \* originalImage.style.display = "block"
    uploadPlaceholderHidden,\* uploadPlaceholder has class "hidden"
    timers,                 \* the interval timers the browser is running: id -> the
                            \* messageIndex of the callback's closure
    objectUrls,             \* object URLs created and not revoked
    pendingReads,           \* results of the reads started and not completed,
                            \* oldest selection first
    latestFile,             \* the file of the most recent selection
    cycles,                 \* the orchestration calls started so far, in order
    \* What the last handler run did towards the outside (reset by the next run):
    clickedPrompt,          \* the prompt read by a click on the action trigger
    lastAlert,              \* the text it passed to alert()
    lastDownload,           \* the <a download> it clicked
    uncaughtError,          \* it ended by an exception nobody caught
    ended                   \* the orchestration call that returned in it

uploadVars == <<imageBase64, imageMimeType, originalImageSrc, originalImageShown,
                uploadPlaceholderHidden>>
readVars == <<pendingReads, latestFile>>
modeVars == <<currentMode, radioChecked, actionLabel, downloadLabel>>
resultVars == <<resultUrl, resultContainer, downloadHidden, objectUrls>>
busyVars == <<loadingInterval, timers, loaderHidden, actionDisabled>>
cycleVars == <<cycles>>
outVars == <<clickedPrompt, lastAlert, lastDownload, uncaughtError, ended>>

\* Everything but the record of the last run's outputs.
progVars == <<uploadVars, readVars, modeVars, resultVars, busyVars, cycleVars,
              resultPlaceholderHidden>>

vars == <<imageBase64, imageMimeType, resultUrl, currentMode, loadingInterval,
          radioChecked, actionLabel, downloadLabel, actionDisabled,
          downloadHidden, loaderHidden, resultPlaceholderHidden, resultContainer,
          originalImageSrc, originalImageShown, uploadPlaceholderHidden,
          timers, objectUrls, pendingReads, latestFile, cycles,
          clickedPrompt, lastAlert, lastDownload, uncaughtError, ended>>

CycleIds == DOMAIN cycles
nCycles == Len(cycles)

activeTimers == DOMAIN timers

\* A DOM element of the result area.
El(tag, val) == [tag |-> tag, val |-> val]
LoaderEl == El("loader", <<>>)

\* The position and the local variables of one orchestration call.
IdleCycle ==
    [pc |-> "idle", kind |-> "none", calls |-> 0, waits |-> 0, queries |-> 0,
     falseReports |-> 0, doneSeen |-> FALSE, fetched |-> FALSE,
     httpOk |-> TRUE, reply |-> <<>>]
DoneCycle == [IdleCycle EXCEPT !.pc = "done"]

InFlight(c) == cycles[c].pc \notin {"idle", "done"}

NoDownload == [href |-> Null, name |-> "none"]
NoEnd == [cycle |-> 0, outcome |-> "none", failedAt |-> "none", local |-> IdleCycle]

\* The outputs of a handler run.
Emit(prompt, alert, download, uncaught, end) ==
    /\ clickedPrompt' = prompt
    /\ lastAlert' = alert
    /\ lastDownload' = download
    /\ uncaughtError' = uncaught
    /\ ended' = end

Quiet == Emit(Null, "none", NoDownload, FALSE, NoEnd)

\* The state the page's markup gives the controls before any event.
DomInit ==
    /\ radioChecked = "edit"
    /\ actionLabel = "Editar Imagen"
    /\ downloadLabel = "Descargar Imagen"
    /\ actionDisabled \in BOOLEAN
    /\ downloadHidden = TRUE
    /\ loaderHidden = TRUE
    /\ resultPlaceholderHidden = FALSE
    /\ resultContainer = <<>>
    /\ originalImageSrc = <<>>
    /\ originalImageShown = FALSE
    /\ uploadPlaceholderHidden = FALSE

\* No handler has run yet.
Quiet0 ==
    /\ clickedPrompt = Null
    /\ lastAlert = "none"
    /\ lastDownload = NoDownload
    /\ uncaughtError = FALSE
    /\ ended = NoEnd

Init ==
    /\ imageBase64 = Null
    /\ imageMimeType = Null
    /\ resultUrl = Null
    /\ currentMode = "edit"
    /\ loadingInterval = Undefined
    /\ DomInit
    /\ timers = [t \in {} |-> 0]
    /\ objectUrls = {}
    /\ pendingReads = <<>>
    /\ latestFile = Null
    /\ cycles = <<>>
    /\ Quiet0

\* ------------------------------------------------------- mode listeners
\* The mode listeners without their downloadButton.textContent statement.
ModeChangeKeepsDownloadLabel(m) ==
    /\ radioChecked # m
    /\ radioChecked' = m
    /\ currentMode' = m
    /\ actionLabel' = IF m = "edit" THEN "Editar Imagen" ELSE "Crear Video"
    /\ Quiet
    /\ UNCHANGED <<uploadVars, readVars, resultVars, busyVars, cycleVars,
                   resultPlaceholderHidden, downloadLabel>>

\* modeEditRadio / modeVideoRadio "change": fires on the radio that becomes checked.
ModeChange(m) ==
    /\ radioChecked # m
    /\ radioChecked' = m
    /\ currentMode' = m
    /\ actionLabel' = IF m = "edit" THEN "Editar Imagen" ELSE "Crear Video"
    /\ downloadLabel' = IF m = "edit" THEN "Descargar Imagen" ELSE "Descargar Video"
    /\ Quiet
    /\ UNCHANGED <<uploadVars, readVars, resultVars, busyVars, cycleVars,
                   resultPlaceholderHidden>>

\* ------------------------------------------------------- upload listener
\* imageUpload "change" with a file: a FileReader is created and the read starts.
\* Nothing in the synchronous part throws, so the catch (alert) is not entered.
SelectFile(f, maxPending) ==
    /\ Len(pendingReads) < maxPending
    /\ pendingReads' = Append(pendingReads, f)
    /\ latestFile' = f
    /\ Quiet
    /\ UNCHANGED <<uploadVars, modeVars, resultVars, busyVars, cycleVars,
                   resultPlaceholderHidden>>

DataUrlParts(result) == Split(result, ",")

\* reader.onload throws: the explicit Error, or the TypeError of undefined.split
\* when the header holds no ':'.
OnLoadThrows(result) ==
    \/ Len(DataUrlParts(result)) # 2
    \/ Len(Split(DataUrlParts(result)[1], ":")) < 2

\* The MIME type without its .split(';')[0].
MimeTypePartWholeHeader(result) == Split(DataUrlParts(result)[1], ":")[2]

MimeTypePart(result) == Split(Split(DataUrlParts(result)[1], ":")[2], ";")[1]

\* s without its i-th element.
RemoveAt(s, i) == SubSeq(s, 1, i - 1) \o SubSeq(s, i + 1, Len(s))

\* reader.onload with actionButton.disabled = false as its first statement.
ReadCompleteEnablesFirst(i) ==
    /\ i \in 1..Len(pendingReads)
    /\ pendingReads' = RemoveAt(pendingReads, i)
    /\ actionDisabled' = FALSE
    /\ IF OnLoadThrows(pendingReads[i])
       THEN /\ Emit(Null, "none", NoDownload, TRUE, NoEnd)
            /\ UNCHANGED uploadVars
       ELSE /\ imageBase64' = DataUrlParts(pendingReads[i])[2]
            /\ imageMimeType' = MimeTypePart(pendingReads[i])
            /\ originalImageSrc' = pendingReads[i]
            /\ originalImageShown' = TRUE
            /\ uploadPlaceholderHidden' = TRUE
            /\ Quiet
    /\ UNCHANGED <<latestFile, modeVars, resultVars, cycleVars,
                   resultPlaceholderHidden, loadingInterval, timers, loaderHidden>>

\* reader.onload of the i-th pending read: runs when that read completes, in
\* whatever order the reads complete and whatever else is going on. An exception
\* it throws escapes to the event loop: the try/catch of the change listener has
\* long been left.
ReadComplete(i) ==
    /\ i \in 1..Len(pendingReads)
    /\ pendingReads' = RemoveAt(pendingReads, i)
    /\ IF OnLoadThrows(pendingReads[i])
       THEN /\ Emit(Null, "none", NoDownload, TRUE, NoEnd)
            /\ UNCHANGED <<uploadVars, actionDisabled>>
       ELSE /\ imageBase64' = DataUrlParts(pendingReads[i])[2]
            /\ imageMimeType' = MimeTypePart(pendingReads[i])
            /\ originalImageSrc' = pendingReads[i]
            /\ originalImageShown' = TRUE
            /\ uploadPlaceholderHidden' = TRUE
            /\ actionDisabled' = FALSE
            /\ Quiet
    /\ UNCHANGED <<latestFile, modeVars, resultVars, cycleVars,
                   resultPlaceholderHidden, loadingInterval, timers, loaderHidden>>


\* --------------------------------------------- setLoading / displayError
\* setLoading without its first statement: the old timer keeps running.
TimersNotCleared == timers

\* setLoading, first statement: clearInterval(loadingInterval) when it is set.
TimersAfterClear ==
    IF loadingInterval # Undefined
    THEN [t \in activeTimers \ {loadingInterval} |-> timers[t]]
    ELSE timers

\* setLoading(true, message), without the timer part.
SetLoadingTrue(message) ==
    /\ resultContainer' =
          IF Falsy(message) THEN <<LoaderEl>>
          ELSE <<LoaderEl, El("loader-text", message)>>
    /\ downloadHidden' = TRUE
    /\ resultUrl' = Null
    /\ loaderHidden' = FALSE
    /\ actionDisabled' = TRUE

\* setLoading(false) that forgets the trigger.
SetLoadingFalseKeepsDisabled ==
    /\ timers' = TimersAfterClear
    /\ loadingInterval' = Undefined
    /\ loaderHidden' = TRUE
    /\ UNCHANGED actionDisabled

\* setLoading(false).
SetLoadingFalse ==
    /\ timers' = TimersAfterClear
    /\ loadingInterval' = Undefined
    /\ loaderHidden' = TRUE
    /\ actionDisabled' = FALSE

\* displayError(message).
DisplayError(message) ==
    /\ resultContainer' = <<El("error", message)>>
    /\ downloadHidden' = TRUE

\* Orchestration call c returns with the given outcome, its locals being local.
ReturnWith(c, outcome, at, local) ==
    /\ cycles' = [cycles EXCEPT ![c] = DoneCycle]
    /\ Emit(Null, "none", NoDownload, FALSE,
            [cycle |-> c, outcome |-> outcome, failedAt |-> at, local |-> local])

Return(c, outcome, at) == ReturnWith(c, outcome, at, cycles[c])

\* ------------------------------------------------------ action trigger
\* actionButton "click" (a disabled button fires no click), no media stored.
ClickNoImage(prompt) ==
    /\ ~actionDisabled
    /\ Falsy(imageBase64) \/ Falsy(imageMimeType)
    /\ Emit(prompt, AlertNoImage, NoDownload, FALSE, NoEnd)
    /\ UNCHANGED progVars

\* The checks of the click with prompt instead of prompt.trim().
ClickValidNoTrim(prompt) ==
    /\ ~(Falsy(imageBase64) \/ Falsy(imageMimeType))
    /\ ~Falsy(prompt)

\* The click passes both checks.
ClickValid(prompt) ==
    /\ ~(Falsy(imageBase64) \/ Falsy(imageMimeType))
    /\ ~Falsy(Trim(prompt))

\* actionButton "click", media stored, prompt empty after trim.
ClickNoPrompt(prompt) ==
    /\ ~actionDisabled
    /\ ~(Falsy(imageBase64) \/ Falsy(imageMimeType))
    /\ ~ClickValid(prompt)
    /\ Emit(prompt, AlertNoPrompt, NoDownload, FALSE, NoEnd)
    /\ UNCHANGED progVars

\* Click in edit mode: editImageWithGemini up to its await of generateContent.
ClickEdit(prompt, maxCycles) ==
    /\ ~actionDisabled
    /\ ClickValid(prompt)
    /\ currentMode = "edit"
    /\ nCycles < maxCycles
    /\ resultPlaceholderHidden' = TRUE
    /\ SetLoadingTrue(Null)
    /\ timers' = TimersAfterClear
    /\ loadingInterval' = Undefined
    /\ cycles' = Append(cycles, [IdleCycle EXCEPT !.pc = "awaitGenerate",
                                                   !.kind = "edit", !.calls = 1])
    /\ Emit(prompt, "none", NoDownload, FALSE, NoEnd)
    /\ UNCHANGED <<uploadVars, readVars, modeVars, objectUrls>>

\* window.setInterval: the new timer is named by the number of the call that
\* creates it (each call creates one), its closure's messageIndex is 0.
WithNewTimer(running, id) ==
    [t \in (DOMAIN running) \cup {id} |-> IF t = id THEN 0 ELSE running[t]]

\* Click in video mode: generateVideoWithGemini up to its await of generateVideos.
ClickVideo(prompt, maxCycles) ==
    /\ ~actionDisabled
    /\ ClickValid(prompt)
    /\ currentMode # "edit"
    /\ nCycles < maxCycles
    /\ resultPlaceholderHidden' = TRUE
    /\ SetLoadingTrue(<<LoadingMessages[1]>>)
    /\ timers' = WithNewTimer(TimersAfterClear, nCycles + 1)
    /\ loadingInterval' = nCycles + 1
    /\ cycles' = Append(cycles, [IdleCycle EXCEPT !.pc = "awaitSubmit",
                                                   !.kind = "video", !.calls = 1])
    /\ Emit(prompt, "none", NoDownload, FALSE, NoEnd)
    /\ UNCHANGED <<uploadVars, readVars, modeVars, objectUrls>>

\* ------------------------------------------------------- rotation timer
\* document.getElementById('loader-text').textContent = text, when there is one.
RECURSIVE SetLoaderText(_, _)
SetLoaderText(children, text) ==
    IF children = <<>> THEN <<>>
    ELSE IF Head(children).tag = "loader-text"
         THEN <<El("loader-text", text)>> \o Tail(children)
         ELSE <<Head(children)>> \o SetLoaderText(Tail(children), text)

\* A rotation that wraps one entry early.
NextMessageIndexShortWrap(messageIndex) == (messageIndex + 1) % (Len(LoadingMessages) - 1)

\* messageIndex = (messageIndex + 1) % loadingMessages.length
NextMessageIndex(messageIndex) == (messageIndex + 1) % Len(LoadingMessages)

\* The setInterval callback of timer t.
Tick(t) ==
    /\ t \in activeTimers
    /\ timers' = [timers EXCEPT ![t] = NextMessageIndex(@)]
    /\ resultContainer' =
          SetLoaderText(resultContainer,
                        <<LoadingMessages[NextMessageIndex(timers[t]) + 1]>>)
    /\ Quiet
    /\ UNCHANGED <<uploadVars, readVars, modeVars, cycleVars, resultPlaceholderHidden,
                   resultUrl, downloadHidden, objectUrls, loadingInterval,
                   loaderHidden, actionDisabled>>

\* ------------------------------------------------- editImageWithGemini
\* Parts of a generateContent reply: inline binary, text, or neither.
PartInline(mimeType, data) ==
    [hasInline |-> TRUE, mimeType |-> mimeType, data |-> data, text |-> <<>>]
PartText(text) ==
    [hasInline |-> FALSE, mimeType |-> <<>>, data |-> <<>>, text |-> text]

PartA == PartInline(<<"image/png">>, <<"RRR">>)
PartB == PartInline(<<"image/jpeg">>, <<"SSS">>)
PartT == PartText(<<"t">>)
PartBlank == PartText(<<>>)

Candidate(parts) == [hasContent |-> TRUE, parts |-> parts]
CandidateNoContent == [hasContent |-> FALSE, parts |-> <<>>]

\* The replies the service may give (the candidates array of each).
EditReplies ==
    { <<>>,
      <<Candidate(<<>>)>>,
      <<Candidate(<<PartBlank>>)>>,
      <<Candidate(<<PartA>>)>>,
      <<Candidate(<<PartT>>)>>,
      <<Candidate(<<PartA, PartT>>)>>,
      <<Candidate(<<PartA, PartB>>)>>,
      <<Candidate(<<>>), Candidate(<<PartA>>)>>,
      <<CandidateNoContent>> }

\* The template without its ${mimeType}.
ImageUrlNoMime(part) == <<"data", ":", ";", "base64", ",">> \o part.data

\* `data:${mimeType};base64,${data}`
ImageUrl(part) == <<"data", ":">> \o part.mimeType \o <<";", "base64", ",">> \o part.data

\* The elements the loop over the parts appends, in order.
RECURSIVE RenderParts(_)
RenderParts(parts) ==
    IF parts = <<>> THEN <<>>
    ELSE (IF Head(parts).hasInline THEN <<El("img", ImageUrl(Head(parts)))>>
          ELSE IF ~Falsy(Head(parts).text) THEN <<El("model-text", Head(parts).text)>>
          ELSE <<>>) \o RenderParts(Tail(parts))

\* resultUrl after the loop, starting from url: each inline part overwrites it.
RECURSIVE UrlAfterParts(_, _)
UrlAfterParts(parts, url) ==
    IF parts = <<>> THEN url
    ELSE UrlAfterParts(Tail(parts),
                       IF Head(parts).hasInline THEN ImageUrl(Head(parts)) ELSE url)

AnyInline(parts) == \E i \in 1..Len(parts) : parts[i].hasInline

\* foundContent after the loop.
FoundContent(parts) == RenderParts(parts) # <<>>

\* The locals of call c once generateContent has resolved: response.candidates.
Received(c, candidates) == [cycles[c] EXCEPT !.reply = candidates]

\* generateContent resolves: the rest of the try block, then finally.
EditReply(c, candidates) ==
    /\ cycles[c].pc = "awaitGenerate"
    /\ IF Len(candidates) > 0
       THEN IF ~candidates[1].hasContent
            THEN \* candidates[0].content is undefined: TypeError, caught
                 /\ DisplayError(MsgEditError)
                 /\ ReturnWith(c, "failure", "render", Received(c, candidates))
                 /\ UNCHANGED resultUrl
            ELSE IF FoundContent(candidates[1].parts)
            THEN /\ resultContainer' = RenderParts(candidates[1].parts)
                 /\ resultUrl' = UrlAfterParts(candidates[1].parts, resultUrl)
                 /\ downloadHidden' =
                       IF AnyInline(candidates[1].parts) THEN FALSE ELSE downloadHidden
                 /\ ReturnWith(c, IF AnyInline(candidates[1].parts) THEN "image" ELSE "text",
                               "none", Received(c, candidates))
            ELSE /\ DisplayError(MsgNoContent)
                 /\ ReturnWith(c, "empty", "none", Received(c, candidates))
                 /\ UNCHANGED resultUrl
       ELSE /\ DisplayError(MsgNoResponse)
            /\ ReturnWith(c, "empty", "none", Received(c, candidates))
            /\ UNCHANGED resultUrl
    /\ SetLoadingFalse
    /\ UNCHANGED <<uploadVars, readVars, modeVars, resultPlaceholderHidden,
                   objectUrls>>

\* The catch of editImageWithGemini without its finally block.
EditFailNoFinally(c) ==
    /\ cycles[c].pc = "awaitGenerate"
    /\ DisplayError(MsgEditError)
    /\ Return(c, "failure", "awaitGenerate")
    /\ UNCHANGED <<uploadVars, readVars, modeVars, resultPlaceholderHidden,
                   resultUrl, objectUrls, busyVars>>

\* generateContent rejects: catch, then finally.
EditFail(c) ==
    /\ cycles[c].pc = "awaitGenerate"
    /\ DisplayError(MsgEditError)
    /\ SetLoadingFalse
    /\ Return(c, "failure", "awaitGenerate")
    /\ UNCHANGED <<uploadVars, readVars, modeVars, resultPlaceholderHidden,
                   resultUrl, objectUrls>>


\* --------------------------------------------- generateVideoWithGemini
\* What an operation handle may report: not done, done without a video URI,
\* done with one.
OperationReports == {"running", "doneNoUri", "doneUri"}

\* operation.done
Done(report) == report # "running"

\* while (!operation.done)
LoopTest(report) == ~Done(report)

\* operation.response?.generatedVideos?.[0]?.video?.uri is truthy
HasDownloadLink(report) == report = "doneUri"

\* The locals of call c once the handle has given this report.
Observed(c, report) ==
    [cycles[c] EXCEPT !.falseReports = @ + (IF Done(report) THEN 0 ELSE 1),
                      !.doneSeen = @ \/ Done(report)]

\* generateVideos or getVideosOperation resolves: the while test, then either
\* the next wait, or the code after the loop up to its next await.
OperationReply(c, report, maxPolls) ==
    /\ cycles[c].pc \in {"awaitSubmit", "awaitPoll"}
    /\ Done(report) \/ cycles[c].falseReports < maxPolls
    /\ IF LoopTest(report)
       THEN /\ cycles' = [cycles EXCEPT ![c] = [Observed(c, report) EXCEPT !.pc = "waiting"]]
            /\ Quiet
            /\ UNCHANGED <<resultVars, busyVars>>
       ELSE IF HasDownloadLink(report)
       THEN /\ cycles' = [cycles EXCEPT ![c] =
                            [Observed(c, report) EXCEPT !.pc = "awaitFetch",
                                                        !.fetched = TRUE,
                                                        !.calls = @ + 1]]
            /\ Quiet
            /\ UNCHANGED <<resultVars, busyVars>>
       ELSE /\ DisplayError(MsgNoVideo)
            /\ SetLoadingFalse
            /\ cycles' = [cycles EXCEPT ![c] = DoneCycle]
            /\ Emit(Null, "none", NoDownload, FALSE,
                    [cycle |-> c, outcome |-> "empty", failedAt |-> "none",
                     local |-> Observed(c, report)])
            /\ UNCHANGED <<resultUrl, objectUrls>>
    /\ UNCHANGED <<uploadVars, readVars, modeVars, resultPlaceholderHidden>>

\* A loop that asks for the status twice after each wait.
WaitElapsedDoubleQuery(c) ==
    /\ cycles[c].pc = "waiting"
    /\ cycles' = [cycles EXCEPT ![c].pc = "awaitPoll", ![c].waits = @ + 1,
                                ![c].queries = @ + 2, ![c].calls = @ + 2]
    /\ Quiet
    /\ UNCHANGED <<uploadVars, readVars, modeVars, resultVars, busyVars,
                   resultPlaceholderHidden>>

\* The 10 s setTimeout of the polling loop fires: getVideosOperation is called.
WaitElapsed(c) ==
    /\ cycles[c].pc = "waiting"
    /\ cycles' = [cycles EXCEPT ![c].pc = "awaitPoll", ![c].waits = @ + 1,
                                ![c].queries = @ + 1, ![c].calls = @ + 1]
    /\ Quiet
    /\ UNCHANGED <<uploadVars, readVars, modeVars, resultVars, busyVars,
                   resultPlaceholderHidden>>

\* fetch resolves: videoResponse.blob() is called.
FetchReply(c) ==
    /\ cycles[c].pc = "awaitFetch"
    /\ cycles' = [cycles EXCEPT ![c].pc = "awaitBlob"]
    /\ Quiet
    /\ UNCHANGED <<uploadVars, readVars, modeVars, resultVars, busyVars,
                   resultPlaceholderHidden>>

\* URL.createObjectURL for the video of call c.
BlobUrl(c) == <<"blob:", ToString(c)>>

\* URL.revokeObjectURL is never called: what is allocated stays allocated.
ObjectUrlsAfterCreate(url) == objectUrls \cup {url}

\* blob() resolves: the video is rendered, then finally. httpOk is the status
\* the fetch had resolved with, a 2xx or an error status: fetch rejects on
\* network errors only, and the code never reads videoResponse.ok, so the bytes
\* made into the video are then the body of the error reply.
BlobReply(c, httpOk) ==
    /\ cycles[c].pc = "awaitBlob"
    /\ objectUrls' = ObjectUrlsAfterCreate(BlobUrl(c))
    /\ resultContainer' = <<El("video", BlobUrl(c))>>
    /\ resultUrl' = BlobUrl(c)
    /\ downloadHidden' = FALSE
    /\ SetLoadingFalse
    /\ cycles' = [cycles EXCEPT ![c] = DoneCycle]
    /\ Emit(Null, "none", NoDownload, FALSE,
            [cycle |-> c, outcome |-> "video", failedAt |-> "none",
             local |-> [cycles[c] EXCEPT !.httpOk = httpOk]])
    /\ UNCHANGED <<uploadVars, readVars, modeVars, resultPlaceholderHidden>>

\* The catch of generateVideoWithGemini without its finally block.
VideoFailNoFinally(c) ==
    /\ cycles[c].pc \in {"awaitSubmit", "awaitPoll", "awaitFetch", "awaitBlob"}
    /\ DisplayError(MsgVideoError)
    /\ Return(c, "failure", cycles[c].pc)
    /\ UNCHANGED <<uploadVars, readVars, modeVars, resultPlaceholderHidden,
                   resultUrl, objectUrls, busyVars>>

\* An awaited remote call rejects: catch, then finally.
VideoFail(c) ==
    /\ cycles[c].pc \in {"awaitSubmit", "awaitPoll", "awaitFetch", "awaitBlob"}
    /\ DisplayError(MsgVideoError)
    /\ SetLoadingFalse
    /\ Return(c, "failure", cycles[c].pc)
    /\ UNCHANGED <<uploadVars, readVars, modeVars, resultPlaceholderHidden,
                   resultUrl, objectUrls>>

\* ---------------------------------------------------- download trigger
DownloadName == IF currentMode = "edit" THEN "imagen-editada.png" ELSE "video-generado.mp4"

\* downloadButton "click": a hidden button cannot be clicked.
DownloadClick ==
    /\ ~downloadHidden
    /\ IF Falsy(resultUrl)
       THEN Emit(Null, AlertNoResult, NoDownload, FALSE, NoEnd)
       ELSE Emit(Null, "none", [href |-> resultUrl, name |-> DownloadName], FALSE, NoEnd)
    /\ UNCHANGED progVars

\* ------------------------------------------------------- specification
Next(maxCycles, maxPending, maxPolls) ==
    \/ \E m \in Modes : ModeChange(m)
    \/ \E f \in Files : SelectFile(f, maxPending)
    \/ \E i \in 1..Len(pendingReads) : ReadComplete(i)
    \/ \E p \in Prompts : ClickNoImage(p)
    \/ \E p \in Prompts : ClickNoPrompt(p)
    \/ \E p \in Prompts : ClickEdit(p, maxCycles)
    \/ \E p \in Prompts : ClickVideo(p, maxCycles)
    \/ \E t \in activeTimers : Tick(t)
    \/ \E c \in CycleIds, candidates \in EditReplies : EditReply(c, candidates)
    \/ \E c \in CycleIds : EditFail(c)
    \/ \E c \in CycleIds, report \in OperationReports : OperationReply(c, report, maxPolls)
    \/ \E c \in CycleIds : WaitElapsed(c)
    \/ \E c \in CycleIds : FetchReply(c)
    \/ \E c \in CycleIds, httpOk \in BOOLEAN : BlobReply(c, httpOk)
    \/ \E c \in CycleIds : VideoFail(c)
    \/ DownloadClick

\* Overlapping calls.
Spec == Init /\ [][Next(MaxCycles, MaxPending, MaxPolls)]_vars

\* One call, polled at length.
SpecPoll == Init /\ [][Next(PollCycles, PollPending, PollPolls)]_vars

\* One call, polled once: the steps of the handlers one by one.
SpecStep == Init /\ [][Next(StepCycles, StepPending, StepPolls)]_vars

\* Overlapping reads.
SpecUpload == Init /\ [][Next(UploadCycles, UploadPending, UploadPolls)]_vars

\* The continuation of whatever call c awaits: the awaited promise settles (the
\* remote call returns or fails, the 10 s timeout elapses) and the event loop
\* resumes the async function.
CycleStep(c, maxPolls) ==
    /\ c \in CycleIds
    /\ \/ \E candidates \in EditReplies : EditReply(c, candidates)
       \/ EditFail(c)
       \/ \E report \in OperationReports : OperationReply(c, report, maxPolls)
       \/ WaitElapsed(c)
       \/ FetchReply(c)
       \/ \E httpOk \in BOOLEAN : BlobReply(c, httpOk)
       \/ VideoFail(c)

\* Every awaited promise settles, the job reports done after at most LivePolls
\* not-done reports, and a settled promise's continuation is run.
SpecLive ==
    /\ Init
    /\ [][Next(LiveCycles, LivePending, LivePolls)]_vars
    /\ \A c \in 1..LiveCycles : WF_vars(CycleStep(c, LivePolls))

\* reader.onload on its own: one read is pending, of a file whose data URL is
\* any string of up to ParseLen tokens, and it completes.
UrlTokens == {"data", ":", ";", ",", "m"}

DataUrls == UNION {[1..n -> UrlTokens] : n \in 0..ParseLen}

InitParse ==
    /\ imageBase64 = Null
    /\ imageMimeType = Null
    /\ resultUrl = Null
    /\ currentMode = "edit"
    /\ loadingInterval = Undefined
    /\ DomInit
    /\ timers = [t \in {} |-> 0]
    /\ objectUrls = {}
    /\ \E url \in DataUrls : pendingReads = <<url>> /\ latestFile = url
    /\ cycles = <<>>
    /\ Quiet0

NextParse == \E i \in 1..Len(pendingReads) : ReadComplete(i)

SpecParse == InitParse /\ [][NextParse]_vars


\* ================================================================ claims
InFlightCycles == {c \in CycleIds : InFlight(c)}

\* A cycle returned in the last handler run.
CycleEnded == ended.cycle # 0

DownloadVisible == ~downloadHidden

\* The result area shows an image or a video.
ResultIsMedia == \E i \in 1..Len(resultContainer) : resultContainer[i].tag \in {"img", "video"}

\* The result area holds exactly one error message, one of msgs.
ShowsError(msgs) ==
    /\ Len(resultContainer) = 1
    /\ resultContainer[1].tag = "error"
    /\ resultContainer[1].val \in msgs

\* C1: at most one orchestration cycle is in flight at a time, and while one is
\* in flight the action trigger is disabled.
C1_OneCycleInFlight ==
    /\ Cardinality(InFlightCycles) <= 1
    /\ InFlightCycles # {} => actionDisabled

\* C2: every cycle that ends, whatever its mode and outcome, ends with the loader
\* hidden, no rotation timer running, loadingInterval undefined and the action
\* trigger enabled.
C2_EndsClean ==
    CycleEnded =>
        /\ loaderHidden
        /\ loadingInterval = Undefined
        /\ activeTimers = {}
        /\ ~actionDisabled

\* A video cycle has just ended in Failure.
C2_Witness ==
    /\ CycleEnded
    /\ ended.local.kind = "video"
    /\ ended.outcome = "failure"
    /\ ended.failedAt = "awaitPoll"

\* C3: the download affordance is visible exactly when the stored result handle
\* is non-null, and exactly when the result shown is an image or a video.
C3_DownloadIffResult ==
    /\ DownloadVisible <=> resultUrl # Null
    /\ DownloadVisible <=> ResultIsMedia

\* C4: a click on the action trigger with no stored media, or with a prompt that
\* is empty after trimming, changes nothing of the program's state (no call is
\* started, no remote call issued) and raises an alert.
C4_InvalidClickNoChange ==
    [][ (/\ clickedPrompt' # Null
         /\ \/ Falsy(imageBase64)
            \/ Falsy(imageMimeType)
            \/ Trim(clickedPrompt') = <<>>)
        => /\ UNCHANGED progVars
           /\ lastAlert' \in {AlertNoImage, AlertNoPrompt} ]_vars

\* The trigger was clicked with a whitespace-only prompt while a result was stored.
C4_Witness ==
    /\ clickedPrompt = <<" ">>
    /\ lastAlert = AlertNoPrompt
    /\ resultUrl # Null

\* C5: a cycle in which a remote call failed (a rejected call, or a fetch of the
\* video bytes answered with an error status) ends with the generic error
\* message in the result area, the download affordance hidden and no stored
\* result handle.
C5_FailureIsTerminal ==
    (CycleEnded /\ (ended.outcome = "failure" \/ ~ended.local.httpOk)) =>
        /\ ShowsError({MsgEditError, MsgVideoError})
        /\ downloadHidden
        /\ resultUrl = Null

\* C6: at most one rotation timer runs, it is the one loadingInterval names, and
\* it is not older than any video cycle in flight (after start, start only the
\* second timer runs).
C6_OneTimer ==
    /\ Cardinality(activeTimers) <= 1
    /\ \A t \in activeTimers : t = loadingInterval
    /\ \A t \in activeTimers, c \in InFlightCycles : cycles[c].kind = "video" => t >= c

\* Two video cycles are in flight and only the second one's timer runs.
C6_Witness ==
    /\ Cardinality({c \in InFlightCycles : cycles[c].kind = "video"}) = 2
    /\ activeTimers = {2}

\* The polling counts of one call's locals: once done=true has been seen after
\* n done=false reports, n waits and n status queries have been made; the bytes
\* are fetched only after done=true.
PollCountsOk(local) ==
    /\ local.doneSeen => (local.waits = local.falseReports /\ local.queries = local.falseReports)
    /\ local.fetched => local.doneSeen

\* C7: a video job that reports done=false n times and then done=true is waited
\* for n times and queried n times, is fetched only after done=true, and, its
\* bytes fetched, yields the video as the result.
C7_PollingCounts ==
    /\ \A c \in CycleIds : PollCountsOk(cycles[c])
    /\ CycleEnded =>
          /\ PollCountsOk(ended.local)
          /\ ended.outcome = "video" =>
                /\ ended.local.fetched
                /\ resultContainer = <<El("video", BlobUrl(ended.cycle))>>
                /\ resultUrl = BlobUrl(ended.cycle)
                /\ DownloadVisible

\* A job that reported done=false twice has yielded its video after two waits.
C7_Witness ==
    /\ CycleEnded
    /\ ended.outcome = "video"
    /\ ended.local.falseReports = 2
    /\ ended.local.waits = 2
    /\ ended.local.queries = 2

\* C8: a cycle that ends Empty ends with exactly one error message in the result
\* area, the download affordance hidden and no stored result handle.
C8_EmptyShowsError ==
    (CycleEnded /\ ended.outcome = "empty") =>
        /\ ShowsError({MsgNoContent, MsgNoResponse, MsgNoVideo})
        /\ downloadHidden
        /\ resultUrl = Null

\* C9: every object URL that is allocated is the stored result handle (those of
\* earlier results have been released).
C9_ResultsReleased == \A u \in objectUrls : u = resultUrl

\* C10: once no read is pending, the stored media and the preview are those of
\* the most recent selection (when its data URL is well formed).
C10_LatestSelectionWins ==
    (/\ pendingReads = <<>>
     /\ latestFile # Null
     /\ ~OnLoadThrows(latestFile))
    => /\ imageBase64 = DataUrlParts(latestFile)[2]
       /\ imageMimeType = MimeTypePart(latestFile)
       /\ originalImageSrc = latestFile

\* C11: a read that completes with a data URL that cannot be decoded is reported
\* to the user with the read-error alert.
C11_DecodeFailureAlerts == uncaughtError => lastAlert = AlertReadError

\* C14: while a cycle is in flight the loader is visible and the action trigger
\* is disabled.
C14_BusyWhileInFlight ==
    InFlightCycles # {} => (~loaderHidden /\ actionDisabled)

\* The labels of the two buttons are those of the current mode.
LabelsAgree ==
    \/ /\ currentMode = "edit"
       /\ actionLabel = "Editar Imagen"
       /\ downloadLabel = "Descargar Imagen"
    \/ /\ currentMode = "video"
       /\ actionLabel = "Crear Video"
       /\ downloadLabel = "Descargar Video"

\* C12: a step that changes the current mode or one of the two labels leaves
\* both labels agreeing with the new mode (so the labels, which agree with the
\* mode when the page is loaded, agree with it in every reachable state), and
\* leaves the stored media, the stored result handle, the displayed result and
\* the visibility of the download affordance unchanged.
C12_ModeSwitch ==
    [][ (\/ currentMode' # currentMode
         \/ actionLabel' # actionLabel
         \/ downloadLabel' # downloadLabel)
        => /\ LabelsAgree'
           /\ UNCHANGED <<imageBase64, imageMimeType, resultUrl, resultContainer,
                          downloadHidden>> ]_vars

\* The mode was switched to video while the image of an edit cycle was shown.
C12_Witness ==
    /\ currentMode = "video"
    /\ InFlightCycles = {}
    /\ resultUrl # Null
    /\ Head(resultUrl) = "data"
    /\ DownloadVisible

\* A cycle was started in the step.
CycleStarted == Len(cycles') > Len(cycles)

\* C13: a rotation timer runs only while the video cycle that created it is in
\* flight (so none runs when no cycle is in flight, and none is created by an
\* edit cycle), and when a cycle starts every timer of an earlier cycle is
\* cancelled in the same step in which the busy state is established.
C13_TimerOnlyInFlight ==
    /\ [](\A t \in activeTimers :
            /\ t \in CycleIds
            /\ InFlight(t)
            /\ cycles[t].kind = "video")
    /\ [][ CycleStarted =>
            /\ \A t \in activeTimers' : t = Len(cycles') /\ cycles'[t].kind = "video"
            /\ ~loaderHidden' /\ actionDisabled' ]_vars

\* An edit cycle was started while a video cycle was in flight: both are in
\* flight and the video cycle's timer has been cancelled.
C13_Witness ==
    /\ nCycles = 2
    /\ InFlight(1) /\ cycles[1].kind = "video"
    /\ InFlight(2) /\ cycles[2].kind = "edit"
    /\ activeTimers = {}
    /\ ~loaderHidden

\* A part of a reply that is rendered: inline binary, or text that is not empty.
Renderable(part) == part.hasInline \/ part.text # <<>>

IsInline(part) == part.hasInline

\* The element that shows a renderable part.
ExpectedElement(part) ==
    IF part.hasInline
    THEN [tag |-> "img",
          val |-> <<"data", ":">> \o part.mimeType \o <<";", "base64", ",">> \o part.data]
    ELSE [tag |-> "model-text", val |-> part.text]

\* One element per renderable part, in the parts' order.
ExpectedResult(parts) ==
    LET shown == SelectSeq(parts, Renderable)
    IN  [i \in 1..Len(shown) |-> ExpectedElement(shown[i])]

\* An edit cycle has just ended with something of its reply rendered.
EditSucceeded ==
    /\ CycleEnded
    /\ ended.local.kind = "edit"
    /\ ended.outcome \in {"image", "text"}

\* C15: when an edit cycle ends successfully the result area holds exactly one
\* element per renderable part of the first candidate, in the parts' order (an
\* image with source data:{mimeType};base64,{data} for an inline part, a text
\* annotation for a non-empty text part); with one inline part there is exactly
\* one image element and the download affordance is visible; with several, the
\* stored download target is the data URL of the last one.
C15_EditRendering ==
    EditSucceeded =>
        LET parts == ended.local.reply[1].parts
            inline == SelectSeq(parts, IsInline)
        IN  /\ resultContainer = ExpectedResult(parts)
            /\ Len(inline) = 1 =>
                  /\ Cardinality({i \in 1..Len(resultContainer) :
                                     resultContainer[i].tag = "img"}) = 1
                  /\ DownloadVisible
            /\ Len(inline) >= 1 =>
                  /\ resultUrl = ExpectedElement(inline[Len(inline)]).val
                  /\ DownloadVisible

\* An edit cycle has ended whose reply held two inline parts.
C15_Witness ==
    /\ EditSucceeded
    /\ Len(SelectSeq(ended.local.reply[1].parts, IsInline)) = 2
    /\ Len(resultContainer) = 2

\* The position of the first tok in s (s holds one).
IndexOf(s, tok) == CHOOSE i \in 1..Len(s) : s[i] = tok /\ \A j \in 1..(i - 1) : s[j] # tok

Occurrences(s, tok) == Cardinality({i \in 1..Len(s) : s[i] = tok})

\* The header of a data URL with a comma: what precedes the first comma.
HeaderOf(url) == SubSeq(url, 1, IndexOf(url, ",") - 1)

\* A valid upload: exactly one comma, and a header of the form data:<mime>;...
\* (the MIME type holds no ':').
ValidUpload(url) ==
    /\ Occurrences(url, ",") = 1
    /\ LET h == HeaderOf(url)
       IN  /\ Len(h) >= 3
           /\ h[1] = "data"
           /\ h[2] = ":"
           /\ Occurrences(h, ";") >= 1
           /\ \A i \in 3..(IndexOf(h, ";") - 1) : h[i] # ":"

\* C16: once the read of a valid upload has completed, the stored MIME type is
\* the substring of the header between ':' and ';' and the stored payload is the
\* substring after the first comma.
C16_ValidUploadParsed ==
    (pendingReads = <<>> /\ ValidUpload(latestFile)) =>
        LET h == HeaderOf(latestFile)
        IN  /\ imageMimeType = SubSeq(h, IndexOf(h, ":") + 1, IndexOf(h, ";") - 1)
            /\ imageBase64 = SubSeq(latestFile, IndexOf(latestFile, ",") + 1,
                                    Len(latestFile))

\* The read of data:m;,m has completed.
C16_Witness ==
    /\ pendingReads = <<>>
    /\ latestFile = <<"data", ":", "m", ";", ",", "m">>
    /\ imageMimeType = <<"m">>
    /\ imageBase64 = <<"m">>

\* The job of call c has reported not-done in the step.
ReportedNotDone(c) ==
    /\ c \in CycleIds
    /\ cycles'[c].falseReports > cycles[c].falseReports

\* C17: when every remote call eventually returns or fails and the job
\* eventually reports done, every cycle that is started eventually ends, with
\* the action trigger enabled at its end; and a not-done report never ends the
\* cycle: the loop goes on to wait and to ask again.
C17_CyclesEnd ==
    /\ \A c \in 1..LiveCycles :
          (c \in CycleIds /\ InFlight(c)) ~> (ended.cycle = c /\ ~actionDisabled)
    /\ [][ \A c \in 1..LiveCycles :
             ReportedNotDone(c) => (cycles'[c].pc = "waiting" /\ ended' = NoEnd) ]_vars

\* A video cycle whose job reported not-done has ended with its video, the
\* trigger enabled.
C17_Witness ==
    /\ CycleEnded
    /\ ended.outcome = "video"
    /\ ended.local.falseReports = 1
    /\ ~actionDisabled

\* The status message displayed under the loader, Null when there is none.
LoaderText ==
    IF \E i \in 1..Len(resultContainer) : resultContainer[i].tag = "loader-text"
    THEN resultContainer[CHOOSE i \in 1..Len(resultContainer) :
                            resultContainer[i].tag = "loader-text"].val
    ELSE Null

\* The k-th status string of the ordered list, counted from 0.
StatusString(k) == <<LoadingMessages[k + 1]>>

\* The position in the list of the status string that is displayed.
ShownIndex(text) == CHOOSE k \in 0..4 : StatusString(k) = text

\* A timer that runs before and after the step has ticked in it.
Ticked == \E t \in activeTimers \cap activeTimers' : timers'[t] # timers[t]

\* C18: a status message appears as the first of the five strings; each tick of
\* the timer happens while the message is displayed and replaces the string at
\* position i by the one at position i + 1, the last one by the first (so that
\* after k ticks the string at position k mod 5 is displayed); and the string
\* displayed is always one of the five.
C18_StatusRotation ==
    /\ [](LoaderText # Null => \E k \in 0..4 : LoaderText = StatusString(k))
    /\ [][ /\ (LoaderText' # Null /\ (LoaderText = Null \/ CycleStarted))
               => LoaderText' = StatusString(0)
           /\ Ticked =>
                 /\ LoaderText # Null
                 /\ LoaderText' = StatusString(IF ShownIndex(LoaderText) = 4 THEN 0
                                               ELSE ShownIndex(LoaderText) + 1) ]_vars

\* The last of the five strings is displayed, four ticks after the first.
C18_Witness ==
    /\ LoaderText = StatusString(4)
    /\ \E t \in activeTimers : InFlight(t) /\ timers[t] = 4

\* The download trigger produced a download in the last handler run.
Downloaded == lastDownload # NoDownload

\* What a handle refers to: the image of an edit cycle is a data URL, the video
\* of a video cycle an object URL.
IsImageHandle(url) == url # Null /\ Head(url) = "data"
IsVideoHandle(url) == url # Null /\ Head(url) = "blob:"

\* C19: a download is produced only from a stored result, and its filename is
\* that of the kind of the result: imagen-editada.png for the image of an edit
\* cycle, video-generado.mp4 for the video of a video cycle.
C19_FilenameMatchesResult ==
    Downloaded =>
        /\ lastDownload.href # Null
        /\ lastDownload.name = "imagen-editada.png" => IsImageHandle(lastDownload.href)
        /\ lastDownload.name = "video-generado.mp4" => IsVideoHandle(lastDownload.href)

\* The completion of a read that could not be decoded, or of none at all, leaves
\* the stored media and the trigger's flag as they were.
FailedReadChangesNothing ==
    uncaughtError' => UNCHANGED <<imageBase64, imageMimeType, actionDisabled>>

\* C20: the stored payload and the stored MIME type are both absent, or they are
\* the payload and the MIME type of the upload whose data URL the preview shows
\* (the last read that completed with a decodable result); a read that ends
\* in a decode failure leaves both, and the trigger's enabled flag, unchanged.
C20_MediaPaired ==
    /\ [](\/ /\ imageBase64 = Null
              /\ imageMimeType = Null
              /\ originalImageSrc = <<>>
           \/ /\ originalImageSrc \in Files
              /\ Occurrences(originalImageSrc, ",") = 1
              /\ imageBase64 = SubSeq(originalImageSrc, IndexOf(originalImageSrc, ",") + 1,
                                      Len(originalImageSrc))
              /\ imageMimeType = SubSeq(originalImageSrc, 3,
                                        IndexOf(originalImageSrc, ";") - 1))
    /\ [][FailedReadChangesNothing]_vars

\* The read of an empty file has failed while the media of an earlier upload
\* are stored and a cycle has disabled the trigger.
C20_Witness ==
    /\ uncaughtError
    /\ imageBase64 = <<"AAA">>
    /\ imageMimeType = <<"image/png">>
    /\ actionDisabled

====
